---- MODULE Spec2Model ----
(***************************************************************************)
(* Session state machine of the mock-interview backend: one interview      *)
(* session (InterviewState), the operations of InterviewWorkflow, the      *)
(* evaluator's bulk evaluation, the workflow graph and the HTTP routes of  *)
(* app/api/routes/interviews.py and interviews_stream.py that drive it.    *)
(*                                                                         *)
(* Texts produced by the language model are not modelled (a Question is    *)
(* its question_id and category); an answer is one of a few distinct       *)
(* texts; an AnswerEvaluation is the question_id and answer_text it binds  *)
(* (its scores are a function of the answer text alone); on some answer    *)
(* texts the evaluator raises instead of returning.                        *)
(***************************************************************************)
EXTENDS Integers, Sequences, FiniteSets, TLC

\* ---------------------------------------------------------------- bounds
\* largest total_questions a session is started with
MaxTotal == 2
\* answers are accepted while fewer than MaxAnswers are recorded
MaxAnswers == 3
\* a graph run is started only if it cannot push len(questions) above this
MaxQuestions == 4
\* largest total_questions for which categories are computed on their own
MaxCategoryTotal == 10
\* bulk generation: largest total_questions, most lines of a collaborator
\* response, largest number a line may start with
MaxBulkTotal == 3
MaxLines == 4
MaxLineNumber == 3
\* most sentences of a text given to feature extraction
MaxSentences == 3

\* total_questions values a start may receive
TotalChoices == 1..MaxTotal
\* answer texts whose features make the fuzzy engine raise an error that
\* FuzzyEvaluationService.evaluate does not catch (ValueError: no rule of a
\* dimension fires)
RaisingTexts == {"x"}
\* distinct answer texts
AnswerTexts == {"a", "b"} \cup RaisingTexts
\* distinct outputs of the feedback collaborator
FeedbackTexts == {"f1", "f2"}
\* identities of streaming responses that may be in flight at once
Requests == {"r1", "r2"}
RequestOrder == <<"r1", "r2">>

\* final_feedback: None
None == "None"

VARIABLES
    api,                  \* which start created the session: "none" before any
    stored,               \* session_id is a key of its interview_sessions dict
    total_questions,      \* InterviewState.total_questions
    current_question_id,  \* InterviewState.current_question_id
    questions,            \* InterviewState.questions
    answers,              \* InterviewState.answers
    evaluations,          \* InterviewState.evaluations
    final_feedback,       \* InterviewState.final_feedback
    status,               \* InterviewState.status
    gen,                  \* streaming generators in flight, per request
    graph_pc,             \* node a run of the compiled graph is about to execute
    last                  \* the last request or call: its outcome and whether
                          \* it invoked feedback_agent.generate_feedback

session == <<total_questions, current_question_id, questions, answers,
             evaluations, final_feedback, status>>

vars == <<api, stored, total_questions, current_question_id, questions, answers,
          evaluations, final_feedback, status, gen, graph_pc, last>>

Min(a, b) == IF a <= b THEN a ELSE b

\* ------------------------------------------------------- pure functions

\* _determine_category with the boundaries exclusive (< for <=)
determine_category_exclusive(question_id, total) ==
    IF question_id = 1 THEN "opening"
    ELSE IF 10 * question_id < 3 * total THEN "foundational"
    ELSE IF 10 * question_id < 6 * total THEN "intermediate"
    ELSE IF 10 * question_id < 9 * total THEN "advanced"
    ELSE "closing"

\* InterviewerAgent._determine_category: progress = question_id / total_questions
\* compared with 0.3, 0.6, 0.9 (inclusive); the float comparison q/t <= k/10
\* agrees with the integer comparison 10*q <= k*t.
determine_category(question_id, total) ==
    IF question_id = 1 THEN "opening"
    ELSE IF 10 * question_id <= 3 * total THEN "foundational"
    ELSE IF 10 * question_id <= 6 * total THEN "intermediate"
    ELSE IF 10 * question_id <= 9 * total THEN "advanced"
    ELSE "closing"

\* Question(question_id, category)
Question(question_id, category) ==
    [question_id |-> question_id, category |-> category]

\* InterviewerAgent.generate_first_question
generate_first_question == Question(1, "opening")

\* InterviewerAgent.generate_next_question
generate_next_question(qs, total) ==
    Question(Len(qs) + 1, determine_category(Len(qs) + 1, total))

\* the outcome of a call that raised the evaluator's uncaught error: in place
\* of an evaluation, and <<ValueError>> in place of a list of evaluations
ValueError == [question_id |-> 0 - 1, answer_text |-> "ValueError"]

\* EvaluatorAgent.evaluate_answer: the evaluation, or the error that
\* fuzzy_service.evaluate lets through
evaluate_answer(question, answer) ==
    IF answer \in RaisingTexts THEN ValueError
    ELSE [question_id |-> question.question_id, answer_text |-> answer]

\* a loop of evaluate_answer calls: the first one that raises ends it
evaluated(new) ==
    IF \E j \in 1..Len(new) : new[j] = ValueError THEN <<ValueError>> ELSE new

\* evaluate_all_answers without its "skip if already evaluated" test: every
\* pair of zip(questions, answers) is evaluated again
evaluate_all_answers_noskip(qs, as, evs) ==
    evaluated([j \in 1..Min(Len(qs), Len(as)) |-> evaluate_answer(qs[j], as[j])])

\* EvaluatorAgent.evaluate_all_answers: the new evaluations, for the indices of
\* zip(questions, answers) that are not below len(evaluations)
evaluate_all_answers(qs, as, evs) ==
    LET n == Min(Len(qs), Len(as))
        k == IF n > Len(evs) THEN n - Len(evs) ELSE 0
    IN  evaluated([j \in 1..k |->
                       evaluate_answer(qs[Len(evs) + j], as[Len(evs) + j])])

\* InterviewWorkflow.evaluate_all_answers: state.evaluations after the call;
\* nothing is added when the evaluator raises
workflow_evaluate_all(qs, as, evs) ==
    IF evaluate_all_answers(qs, as, evs) = <<ValueError>> THEN <<ValueError>>
    ELSE evs \o evaluate_all_answers(qs, as, evs)

\* InterviewWorkflow.submit_answer: the pointer after the answer is appended
pointer_after_answer(qs, as, total) ==
    IF Len(as) < Len(qs) THEN qs[Len(as) + 1].question_id ELSE total

\* get_feedback without its early return
feedback_exists_never(fb) == FALSE

\* InterviewWorkflow.get_feedback: TRUE when it returns the state untouched
feedback_exists(fb) == fb # None

\* InterviewWorkflow.get_feedback: the evaluations handed to the feedback node
evaluations_for_feedback(qs, as, evs) ==
    IF Len(evs) < Len(as) THEN workflow_evaluate_all(qs, as, evs) ELSE evs

\* InterviewWorkflow.add_streamed_question: state.questions after the call
add_streamed_question(qs, question_id, category) ==
    Append(qs, Question(question_id, category))

\* start_interview_incremental that generates the first question whatever
\* generate_first_question says
start_interview_incremental_ignores_flag(first) ==
    <<generate_first_question>>

\* InterviewWorkflow.start_interview_incremental: the questions of the initial
\* state; with generate_first_question (the default) the first one is there
start_interview_incremental(first) ==
    IF first THEN <<generate_first_question>> ELSE <<>>

\* current_question_id after a list of questions was appended one by one to a
\* state whose pointer was cur
pointer_after_questions(qs, cur) ==
    IF qs = <<>> THEN cur ELSE qs[Len(qs)].question_id

\* ------------------------------------------------------------ initial state
\* a streaming generator: where it stands, the id and category it fixed for
\* the question to come, and, for one that is to generate the next question,
\* len(answers) when its request arrived
IdleGen == [pc |-> "idle", question_id |-> 0, category |-> "", answers_before |-> 0]

\* op: the operation; code: HTTP status of a route (0 for a direct call that
\* returned, -1 for one that raised); detail: status field of the response body;
\* feedback_called: feedback_agent.generate_feedback was invoked
Resp(op, code, detail, called) ==
    [op |-> op, code |-> code, detail |-> detail, feedback_called |-> called]

Init ==
    /\ api = "none"
    /\ stored = FALSE
    /\ total_questions = 10
    /\ current_question_id = 0
    /\ questions = <<>>
    /\ answers = <<>>
    /\ evaluations = <<>>
    /\ final_feedback = None
    /\ status = "in_progress"
    /\ gen = [r \in Requests |-> IdleGen]
    /\ graph_pc = "idle"
    /\ last = Resp("init", 0, "", FALSE)

\* no graph run is executing (graph.invoke is synchronous)
Quiet == graph_pc = "idle"

\* the session is found by the routes of module a
Found(a) == api = a /\ stored

\* ------------------------------------------- workflow pieces used by routes

\* generate_feedback_node that marks the session completed before it asks the
\* feedback collaborator
generate_feedback_node_marks_first(f, llm_ok) ==
    /\ status' = "completed"
    /\ final_feedback' = IF llm_ok THEN f ELSE final_feedback

\* generate_feedback_node: asks the feedback collaborator, then stores its
\* output and marks the session completed; nothing is stored if it raises
generate_feedback_node(f, llm_ok) ==
    IF llm_ok
    THEN final_feedback' = f /\ status' = "completed"
    ELSE UNCHANGED <<final_feedback, status>>

\* InterviewWorkflow.get_feedback raises on the session: in its bulk
\* evaluation, or in the feedback collaborator
get_feedback_raises(llm_ok) ==
    /\ ~feedback_exists(final_feedback)
    /\ \/ evaluations_for_feedback(questions, answers, evaluations) = <<ValueError>>
       \/ ~llm_ok

\* InterviewWorkflow.get_feedback applied to the session; called is TRUE when
\* the feedback collaborator is invoked
get_feedback(f, llm_ok, called) ==
    IF feedback_exists(final_feedback)
    THEN /\ called = FALSE
         /\ UNCHANGED <<evaluations, final_feedback, status>>
    ELSE IF evaluations_for_feedback(questions, answers, evaluations) = <<ValueError>>
    THEN \* the bulk evaluation raised: the feedback node is not reached
         /\ called = FALSE
         /\ UNCHANGED <<evaluations, final_feedback, status>>
    ELSE /\ called = TRUE
         /\ evaluations' = evaluations_for_feedback(questions, answers, evaluations)
         /\ generate_feedback_node(f, llm_ok)

\* ------------------------------------------ routes of api/routes/interviews.py

\* POST /api/interviews/start
start_interview(t, llm_ok) ==
    /\ Quiet /\ api = "none"
    /\ IF llm_ok
       THEN /\ api' = "interviews"
            /\ stored' = TRUE
            /\ total_questions' = t
               \* start_interview_incremental is called without
               \* generate_first_question, which defaults to True; the route
               \* then appends a first question of its own
            /\ questions' = Append(start_interview_incremental(TRUE),
                                   generate_first_question)
            /\ current_question_id' = generate_first_question.question_id
            /\ last' = Resp("start_interview", 201, "in_progress", FALSE)
       ELSE /\ last' = Resp("start_interview", 500, "", FALSE)
            /\ UNCHANGED <<api, stored, total_questions, questions,
                           current_question_id>>
    /\ UNCHANGED <<answers, evaluations, final_feedback, status, gen, graph_pc>>

\* POST /api/interviews/{session_id}/answer
submit_answer(a, llm_ok) ==
    /\ Quiet /\ api = "interviews"
    /\ Len(answers) < MaxAnswers
    /\ IF ~stored
       THEN /\ last' = Resp("submit_answer", 404, "", FALSE)
            /\ UNCHANGED session
       ELSE IF status = "completed"
       THEN /\ last' = Resp("submit_answer", 400, "", FALSE)
            /\ UNCHANGED session
       ELSE /\ answers' = Append(answers, a)
            /\ IF Len(answers') >= total_questions
               THEN /\ IF /\ Len(evaluations) < Len(answers')
                          /\ workflow_evaluate_all(questions, answers', evaluations)
                                 = <<ValueError>>
                       THEN \* the bulk evaluation raised
                            /\ last' = Resp("submit_answer", 500, "", FALSE)
                            /\ UNCHANGED evaluations
                       ELSE /\ evaluations' =
                                 IF Len(evaluations) < Len(answers')
                                 THEN workflow_evaluate_all(questions, answers',
                                                            evaluations)
                                 ELSE evaluations
                            /\ last' = Resp("submit_answer", 200,
                                            IF Len(evaluations') = Len(answers')
                                            THEN "evaluated" ELSE "in_progress",
                                            FALSE)
                    /\ UNCHANGED <<questions, current_question_id>>
               ELSE IF llm_ok
               THEN /\ questions' =
                         Append(questions, generate_next_question(questions, total_questions))
                    /\ current_question_id' = Len(questions) + 1
                    /\ last' = Resp("submit_answer", 200, "in_progress", FALSE)
                    /\ UNCHANGED evaluations
               ELSE /\ last' = Resp("submit_answer", 500, "", FALSE)
                    /\ UNCHANGED <<questions, current_question_id, evaluations>>
            /\ UNCHANGED <<total_questions, final_feedback, status>>
    /\ UNCHANGED <<api, stored, gen, graph_pc>>

\* GET /api/interviews/{session_id}/feedback
get_feedback_route(f, llm_ok) ==
    /\ Quiet /\ api = "interviews"
    /\ IF ~stored
       THEN /\ last' = Resp("get_feedback_route", 404, "", FALSE)
            /\ UNCHANGED <<evaluations, final_feedback, status>>
       ELSE IF final_feedback # None
       THEN /\ last' = Resp("get_feedback_route", 200, status, FALSE)
            /\ UNCHANGED <<evaluations, final_feedback, status>>
       ELSE \E called \in BOOLEAN :
            /\ get_feedback(f, llm_ok, called)
            /\ last' = Resp("get_feedback_route",
                            IF get_feedback_raises(llm_ok) THEN 500 ELSE 200,
                            status', called)
    /\ UNCHANGED <<api, stored, total_questions, current_question_id, questions,
                   answers, gen, graph_pc>>

\* POST /api/interviews/{session_id}/complete
complete_interview(f, llm_ok) ==
    /\ Quiet /\ api = "interviews"
    /\ IF ~stored
       THEN /\ last' = Resp("complete_interview", 404, "", FALSE)
            /\ UNCHANGED <<evaluations, final_feedback, status>>
       ELSE IF status = "completed"
       THEN /\ last' = Resp("complete_interview", 200, status, FALSE)
            /\ UNCHANGED <<evaluations, final_feedback, status>>
       ELSE IF answers = <<>>
       THEN /\ last' = Resp("complete_interview", 400, "", FALSE)
            /\ UNCHANGED <<evaluations, final_feedback, status>>
       ELSE \E called \in BOOLEAN :
            /\ get_feedback(f, llm_ok, called)
            /\ last' = Resp("complete_interview",
                            IF get_feedback_raises(llm_ok) THEN 500 ELSE 200,
                            status', called)
    /\ UNCHANGED <<api, stored, total_questions, current_question_id, questions,
                   answers, gen, graph_pc>>

\* DELETE /api/interviews/{session_id}
delete_interview ==
    /\ Quiet /\ api = "interviews"
    /\ IF stored
       THEN stored' = FALSE /\ last' = Resp("delete_interview", 204, "", FALSE)
       ELSE stored' = stored /\ last' = Resp("delete_interview", 404, "", FALSE)
    /\ UNCHANGED <<api, session, gen, graph_pc>>

\* ------------------------------ InterviewWorkflow methods called directly
\* (a session held by a caller of the workflow object, in no route's store)

\* InterviewWorkflow.start_interview_incremental
workflow_start(t, first, llm_ok) ==
    /\ Quiet /\ api = "none"
    /\ IF first /\ ~llm_ok
       THEN /\ last' = Resp("workflow_start", -1, "", FALSE)
            /\ UNCHANGED <<api, total_questions, questions, current_question_id>>
       ELSE /\ api' = "workflow"
            /\ total_questions' = t
            /\ questions' = start_interview_incremental(first)
            /\ current_question_id' =
                   pointer_after_questions(questions', current_question_id)
            /\ last' = Resp("workflow_start", 0, "in_progress", FALSE)
    /\ UNCHANGED <<stored, answers, evaluations, final_feedback, status, gen,
                   graph_pc>>

\* InterviewWorkflow.submit_answer
workflow_submit_answer(a) ==
    /\ Quiet /\ api = "workflow"
    /\ Len(answers) < MaxAnswers
    /\ answers' = Append(answers, a)
    /\ current_question_id' =
           pointer_after_answer(questions, answers', total_questions)
    /\ last' = Resp("workflow_submit_answer", 0, status, FALSE)
    /\ UNCHANGED <<api, stored, total_questions, questions, evaluations,
                   final_feedback, status, gen, graph_pc>>

\* InterviewWorkflow.evaluate_all_answers
workflow_evaluate_all_answers ==
    /\ Quiet /\ api = "workflow"
    /\ IF workflow_evaluate_all(questions, answers, evaluations) = <<ValueError>>
       THEN /\ last' = Resp("workflow_evaluate_all_answers", 0 - 1, status, FALSE)
            /\ UNCHANGED evaluations
       ELSE /\ evaluations' = workflow_evaluate_all(questions, answers, evaluations)
            /\ last' = Resp("workflow_evaluate_all_answers", 0, status, FALSE)
    /\ UNCHANGED <<api, stored, total_questions, current_question_id, questions,
                   answers, final_feedback, status, gen, graph_pc>>

\* InterviewWorkflow.get_feedback
workflow_get_feedback(f, llm_ok) ==
    /\ Quiet /\ api = "workflow"
    /\ \E called \in BOOLEAN :
         /\ get_feedback(f, llm_ok, called)
         /\ last' = Resp("workflow_get_feedback",
                         IF get_feedback_raises(llm_ok) THEN 0 - 1 ELSE 0,
                         status', called)
    /\ UNCHANGED <<api, stored, total_questions, current_question_id, questions,
                   answers, gen, graph_pc>>

\* -------------------------------------------------- streaming routes
\* A streaming route returns a StreamingResponse; its generator runs later, in
\* pieces separated by the yields, and other requests run in between.

\* r is the identity given to a new streaming response: the first one not in
\* flight (identities are interchangeable)
Free(r) ==
    /\ gen[r].pc = "idle"
    /\ \A i \in 1..Len(RequestOrder) :
          RequestOrder[i] = r => \A j \in 1..(i - 1) : gen[RequestOrder[j]].pc # "idle"

\* POST /api/interviews/start-stream (interviews.py): the session is created
\* with its first question (generate_first_question defaults to True), stored,
\* and the generator is handed to the response
start_interview_stream(r, t, llm_ok) ==
    /\ Quiet /\ api = "none" /\ Free(r)
    /\ IF llm_ok
       THEN /\ api' = "interviews"
            /\ stored' = TRUE
            /\ total_questions' = t
            /\ questions' = start_interview_incremental(TRUE)
            /\ current_question_id' =
                   pointer_after_questions(questions', current_question_id)
            /\ gen' = [gen EXCEPT ![r] =
                          [pc |-> "start", question_id |-> 1, category |-> "opening",
                           answers_before |-> Len(answers)]]
            /\ last' = Resp("start_interview_stream", 200, "in_progress", FALSE)
       ELSE /\ last' = Resp("start_interview_stream", 500, "", FALSE)
            /\ UNCHANGED <<api, stored, total_questions, questions,
                           current_question_id, gen>>
    /\ UNCHANGED <<answers, evaluations, final_feedback, status, graph_pc>>

\* POST /api/interviews/stream/start (interviews_stream.py): the session is
\* created with generate_first_question=False and stored without a question
stream_start_interview(r, t) ==
    /\ Quiet /\ api = "none" /\ Free(r)
    /\ api' = "interviews_stream"
    /\ stored' = TRUE
    /\ total_questions' = t
    /\ questions' = start_interview_incremental(FALSE)
    /\ current_question_id' =
           pointer_after_questions(questions', current_question_id)
    /\ gen' = [gen EXCEPT ![r] =
                  [pc |-> "start", question_id |-> 1, category |-> "opening",
                           answers_before |-> Len(answers)]]
    /\ last' = Resp("stream_start_interview", 200, "in_progress", FALSE)
    /\ UNCHANGED <<answers, evaluations, final_feedback, status, graph_pc>>

\* start generate(): after the last chunk the first question (id 1, opening)
\* is appended and the session is stored again
start_stream_generate(r) ==
    /\ Quiet /\ gen[r].pc = "start"
    /\ questions' = add_streamed_question(questions, gen[r].question_id,
                                          gen[r].category)
    /\ current_question_id' = gen[r].question_id
    /\ stored' = TRUE
    /\ gen' = [gen EXCEPT ![r] = IdleGen]
    /\ last' = Resp("start_stream_generate", 200, "done", FALSE)
    /\ UNCHANGED <<api, total_questions, answers, evaluations, final_feedback,
                   status, graph_pc>>

\* POST /{session_id}/answer-stream (interviews.py) and
\* POST /stream/{session_id}/answer (interviews_stream.py): the handler part,
\* up to the return of the StreamingResponse
submit_answer_stream(r, a) ==
    /\ Quiet /\ api \in {"interviews", "interviews_stream"} /\ Free(r)
    /\ Len(answers) < MaxAnswers
    /\ IF ~stored
       THEN /\ last' = Resp("submit_answer_stream", 404, "", FALSE)
            /\ UNCHANGED <<answers, gen>>
       ELSE IF status = "completed"
       THEN /\ last' = Resp("submit_answer_stream", 400, "", FALSE)
            /\ UNCHANGED <<answers, gen>>
       ELSE /\ answers' = Append(answers, a)
            /\ gen' = [gen EXCEPT ![r] =
                          [pc |-> IF Len(answers') >= total_questions
                                  THEN "evaluating" ELSE "created",
                           question_id |-> 0, category |-> "",
                           answers_before |-> IF Len(answers') >= total_questions
                                              THEN 0 ELSE Len(answers)]]
            /\ last' = Resp("submit_answer_stream", 200, "", FALSE)
    /\ UNCHANGED <<api, stored, total_questions, current_question_id, questions,
                   evaluations, final_feedback, status, graph_pc>>

\* answer generate(), next-question branch, up to the metadata yield: the id
\* and category of the question to come are fixed here
answer_stream_begin(r) ==
    /\ Quiet /\ gen[r].pc = "created"
    /\ gen' = [gen EXCEPT ![r] =
                  [pc |-> "streaming",
                   question_id |-> Len(questions) + 1,
                   category |-> determine_category(Len(questions) + 1,
                                                   total_questions),
                   answers_before |-> gen[r].answers_before]]
    /\ last' = Resp("answer_stream_begin", 200, "in_progress", FALSE)
    /\ UNCHANGED <<api, stored, session, graph_pc>>

\* answer generate(), next-question branch, after the last chunk: the question
\* is appended under the id fixed at the start and the session stored again
answer_stream_finish(r) ==
    /\ Quiet /\ gen[r].pc = "streaming"
    /\ questions' = add_streamed_question(questions, gen[r].question_id,
                                          gen[r].category)
    /\ current_question_id' = gen[r].question_id
    /\ stored' = TRUE
    /\ gen' = [gen EXCEPT ![r] = IdleGen]
    /\ last' = Resp("answer_stream_finish", 200, "done", FALSE)
    /\ UNCHANGED <<api, total_questions, answers, evaluations, final_feedback,
                   status, graph_pc>>

\* answer generate(), all-answers-submitted branch: bulk evaluation if some
\* answer has no evaluation, and then the session is stored again
answer_stream_evaluate(r) ==
    /\ Quiet /\ gen[r].pc = "evaluating"
    /\ IF /\ Len(evaluations) < Len(answers)
          /\ workflow_evaluate_all(questions, answers, evaluations) = <<ValueError>>
       THEN \* the bulk evaluation raised inside the generator: the stream
            \* breaks after its metadata event
            /\ UNCHANGED <<evaluations, stored>>
            /\ last' = Resp("answer_stream_evaluate", 0 - 1, "evaluating", FALSE)
       ELSE IF Len(evaluations) < Len(answers)
       THEN /\ evaluations' = workflow_evaluate_all(questions, answers, evaluations)
            /\ stored' = TRUE
            /\ last' = Resp("answer_stream_evaluate", 200, "evaluated", FALSE)
       ELSE /\ UNCHANGED <<evaluations, stored>>
            /\ last' = Resp("answer_stream_evaluate", 200, "done", FALSE)
    /\ gen' = [gen EXCEPT ![r] = IdleGen]
    /\ UNCHANGED <<api, total_questions, current_question_id, questions, answers,
                   final_feedback, status, graph_pc>>

\* the client stops consuming the stream, or the streaming collaborator
\* raises: the generator is closed where it stands
stream_abandon(r) ==
    /\ Quiet /\ gen[r].pc # "idle"
    /\ gen' = [gen EXCEPT ![r] = IdleGen]
    /\ last' = Resp("stream_abandon", -1, gen[r].pc, FALSE)
    /\ UNCHANGED <<api, stored, session, graph_pc>>

\* ------------------------------------------------------ the workflow graph

\* should_continue with >= for > in its first test
should_continue_geq(as, evs, cur, total) ==
    IF Len(as) >= Len(evs) THEN "evaluate_answer"
    ELSE IF cur >= total THEN "generate_feedback"
    ELSE "idle"

\* should_continue: the node after generate_question
should_continue(as, evs, cur, total) ==
    IF Len(as) > Len(evs) THEN "evaluate_answer"
    ELSE IF cur >= total THEN "generate_feedback"
    ELSE "idle"

\* after_evaluation sending the run back to evaluate_answer instead of
\* generate_question
after_evaluation_reevaluate(cur, total) ==
    IF cur >= total THEN "generate_feedback" ELSE "evaluate_answer"

\* after_evaluation: the node after evaluate_answer
after_evaluation(cur, total) ==
    IF cur >= total THEN "generate_feedback" ELSE "generate_question"

\* questions a run may still append: one per pending evaluation, and one
PendingRun == (IF Len(answers) > Len(evaluations)
               THEN Len(answers) - Len(evaluations) ELSE 0) + 1

\* graph.invoke(state): the run enters at generate_question
graph_invoke ==
    /\ Quiet /\ api = "workflow"
    /\ Len(questions) + PendingRun <= MaxQuestions
    /\ graph_pc' = "generate_question"
    /\ last' = Resp("graph_invoke", 0, status, FALSE)
    /\ UNCHANGED <<api, stored, session, gen>>

\* generate_question_node, then the conditional edge should_continue
generate_question_node(llm_ok) ==
    /\ graph_pc = "generate_question"
    /\ IF llm_ok
       THEN /\ questions' = Append(questions,
                               IF Len(questions) = 0
                               THEN generate_first_question
                               ELSE generate_next_question(questions, total_questions))
            /\ current_question_id' = questions'[Len(questions')].question_id
            /\ graph_pc' = should_continue(answers, evaluations,
                                           current_question_id', total_questions)
            /\ last' = Resp("generate_question_node", 0, status, FALSE)
       ELSE /\ graph_pc' = "idle"
            /\ last' = Resp("generate_question_node", -1, status, FALSE)
            /\ UNCHANGED <<questions, current_question_id>>
    /\ UNCHANGED <<api, stored, total_questions, answers, evaluations,
                   final_feedback, status, gen>>

\* evaluate_answer_node, then the conditional edge after_evaluation
evaluate_answer_node ==
    /\ graph_pc = "evaluate_answer"
    /\ Len(evaluations) < MaxAnswers
    /\ IF /\ answers # <<>>
          /\ evaluate_answer(questions[Len(questions)], answers[Len(answers)])
                 = ValueError
       THEN \* the node raised: graph.invoke raises and the run is over
            /\ UNCHANGED evaluations
            /\ graph_pc' = "idle"
            /\ last' = Resp("evaluate_answer_node", 0 - 1, status, FALSE)
       ELSE /\ evaluations' =
                   IF answers = <<>> THEN evaluations
                   ELSE Append(evaluations,
                               evaluate_answer(questions[Len(questions)],
                                               answers[Len(answers)]))
            /\ graph_pc' = after_evaluation(current_question_id, total_questions)
            /\ last' = Resp("evaluate_answer_node", 0, status, FALSE)
    /\ UNCHANGED <<api, stored, total_questions, current_question_id, questions,
                   answers, final_feedback, status, gen>>

\* generate_feedback_node as a node of the graph, then END
graph_generate_feedback(f, llm_ok) ==
    /\ graph_pc = "generate_feedback"
    /\ generate_feedback_node(f, llm_ok)
    /\ graph_pc' = "idle"
    /\ last' = Resp("graph_generate_feedback", IF llm_ok THEN 0 ELSE -1,
                    status', TRUE)
    /\ UNCHANGED <<api, stored, total_questions, current_question_id, questions,
                   answers, evaluations, gen>>

\* ------------------------------------------------------------ specification

Next ==
    \/ \E t \in TotalChoices, ok \in BOOLEAN : start_interview(t, ok)
    \/ \E a \in AnswerTexts, ok \in BOOLEAN : submit_answer(a, ok)
    \/ \E f \in FeedbackTexts, ok \in BOOLEAN : get_feedback_route(f, ok)
    \/ \E f \in FeedbackTexts, ok \in BOOLEAN : complete_interview(f, ok)
    \/ delete_interview
    \/ \E t \in TotalChoices, first \in BOOLEAN, ok \in BOOLEAN :
          workflow_start(t, first, ok)
    \/ \E a \in AnswerTexts : workflow_submit_answer(a)
    \/ workflow_evaluate_all_answers
    \/ \E f \in FeedbackTexts, ok \in BOOLEAN : workflow_get_feedback(f, ok)
    \/ \E r \in Requests, t \in TotalChoices, ok \in BOOLEAN :
          start_interview_stream(r, t, ok)
    \/ \E r \in Requests, t \in TotalChoices : stream_start_interview(r, t)
    \/ \E r \in Requests : start_stream_generate(r)
    \/ \E r \in Requests, a \in AnswerTexts : submit_answer_stream(r, a)
    \/ \E r \in Requests : answer_stream_begin(r)
    \/ \E r \in Requests : answer_stream_finish(r)
    \/ \E r \in Requests : answer_stream_evaluate(r)
    \/ \E r \in Requests : stream_abandon(r)
    \/ graph_invoke
    \/ \E ok \in BOOLEAN : generate_question_node(ok)
    \/ evaluate_answer_node
    \/ \E f \in FeedbackTexts, ok \in BOOLEAN : graph_generate_feedback(f, ok)

Spec == Init /\ [][Next]_vars

\* the mounted HTTP API only (main.py includes interviews.router and no
\* other interview router): every route of interviews.py, the streaming ones
\* with the steps of their generators
NextRoutes ==
    \/ \E t \in TotalChoices, ok \in BOOLEAN : start_interview(t, ok)
    \/ \E a \in AnswerTexts, ok \in BOOLEAN : submit_answer(a, ok)
    \/ \E f \in FeedbackTexts, ok \in BOOLEAN : get_feedback_route(f, ok)
    \/ \E f \in FeedbackTexts, ok \in BOOLEAN : complete_interview(f, ok)
    \/ delete_interview
    \/ \E r \in Requests, t \in TotalChoices, ok \in BOOLEAN :
          start_interview_stream(r, t, ok)
    \/ \E r \in Requests : start_stream_generate(r)
    \/ \E r \in Requests, a \in AnswerTexts : submit_answer_stream(r, a)
    \/ \E r \in Requests : answer_stream_begin(r)
    \/ \E r \in Requests : answer_stream_finish(r)
    \/ \E r \in Requests : answer_stream_evaluate(r)
    \/ \E r \in Requests : stream_abandon(r)

SpecRoutes == Init /\ [][NextRoutes]_vars

TypeOK ==
    /\ api \in {"none", "interviews", "interviews_stream", "workflow"}
    /\ stored \in BOOLEAN
    /\ total_questions \in Nat
    /\ current_question_id \in Nat
    /\ \A i \in 1..Len(questions) : questions[i].question_id \in Nat
    /\ \A i \in 1..Len(answers) : answers[i] \in AnswerTexts
    /\ final_feedback \in FeedbackTexts \cup {None}
    /\ status \in {"in_progress", "completed"}
    /\ graph_pc \in {"idle", "generate_question", "evaluate_answer",
                     "generate_feedback"}

\* ------------------------------------------------------------------ claims

\* operations that record an answer
AnswerOps == {"submit_answer", "submit_answer_stream", "workflow_submit_answer"}
\* entry points of finalize
FinalizeOps == {"complete_interview", "get_feedback_route", "workflow_get_feedback"}
\* the operation returned normally
Returned(l) == l.code \in {0, 200, 201}

\* C1: in every reachable state of a session, len(questions) <= total_questions.
C1_QuestionsWithinPlan ==
    api # "none" => Len(questions) <= total_questions

\* C2: in every reachable state of a session, len(answers) <= len(questions).
C2_AnswersWithinQuestions ==
    api # "none" => Len(answers) <= Len(questions)

\* C3: whenever status is completed, a feedback summary is stored and every
\* submitted answer has an evaluation.
C3_CompletedMeansEvaluated ==
    status = "completed" =>
        final_feedback # None /\ Len(evaluations) = Len(answers)

\* C4: in every reachable state, len(evaluations) <= len(answers), whichever
\* evaluation paths (graph evaluate node, bulk evaluate_all, finalize) ran.
C4_EvaluationsWithinAnswers ==
    Len(evaluations) <= Len(answers)

\* C4 witness: the graph's evaluate node has just evaluated, after at least
\* one other evaluation, and every answer has an evaluation
C4_Witness ==
    /\ last.op = "evaluate_answer_node"
    /\ last.code = 0
    /\ Len(answers) >= 2
    /\ Len(evaluations) = Len(answers)

\* C5: the question at position i (1-based) has question_id = i.
C5_DenseQuestionIds ==
    \A i \in 1..Len(questions) : questions[i].question_id = i

\* C6: recording an answer on a completed session is rejected with an error
\* and leaves the session unchanged; on an in_progress session an accepted
\* answer increases len(answers) by exactly one.
C6_CompletedRejectsAnswer ==
    [][last'.op \in AnswerOps =>
         /\ status = "completed" => (~Returned(last') /\ UNCHANGED session)
         /\ (status = "in_progress" /\ Returned(last')) =>
                Len(answers') = Len(answers) + 1]_vars

\* C7: finalizing a session that has zero answers signals a validation error
\* and mutates nothing, through every finalize entry point.
C7_FinalizeNeedsAnswers ==
    [][(last'.op \in FinalizeOps /\ answers = <<>>) =>
         (~Returned(last') /\ UNCHANGED session)]_vars

\* C8: finalize on a session that already has a feedback summary returns that
\* same feedback, does not call the feedback collaborator and adds no evaluation.
C8_FinalizeIdempotent ==
    [][(last'.op \in FinalizeOps /\ final_feedback # None) =>
         /\ final_feedback' = final_feedback
         /\ evaluations' = evaluations
         /\ status' = status
         /\ ~last'.feedback_called]_vars

\* C8 witness: a finalize returned on a session with feedback without calling
\* the collaborator (the first finalize of a session always calls it)
C8_Witness ==
    /\ last.op \in FinalizeOps
    /\ Returned(last)
    /\ ~last.feedback_called
    /\ final_feedback # None
    /\ evaluations # <<>>

\* C9: right after evaluate_all, a second evaluate_all on the unchanged session
\* leaves the evaluations list as the first call left it.
C9_EvaluateAllIdempotent ==
    last.op = "workflow_evaluate_all_answers" =>
        \/ workflow_evaluate_all(questions, answers, evaluations) = evaluations
        \/ \* the first call raised: the second raises too and adds nothing
           /\ last.code = 0 - 1
           /\ workflow_evaluate_all(questions, answers, evaluations) = <<ValueError>>

\* C9 witness: evaluate_all has just run and produced evaluations
C9_Witness ==
    /\ last.op = "workflow_evaluate_all_answers"
    /\ last.code = 0
    /\ Len(evaluations) >= 2

\* evaluate_all has just run: called directly, or by the answer route or the
\* answer stream once all planned answers are in
EvaluateAllRan ==
    \/ last.op = "workflow_evaluate_all_answers" /\ last.code = 0
    \/ last.op = "submit_answer" /\ last.code = 200
         /\ Len(answers) >= total_questions
    \/ last.op = "answer_stream_evaluate" /\ last.detail = "evaluated"

\* C10: after evaluate_all every answer has an evaluation, and the i-th
\* evaluation holds the i-th answer text and the i-th question's question_id.
C10_EvaluateAllCoversAnswers ==
    EvaluateAllRan =>
        /\ Len(evaluations) = Len(answers)
        /\ \A i \in 1..Len(evaluations) :
              /\ i <= Len(questions)
              /\ evaluations[i].answer_text = answers[i]
              /\ evaluations[i].question_id = questions[i].question_id

\* positions of answers holding the text x, and evaluations made of x
AnswersWithText(x) == Cardinality({i \in 1..Len(answers) : answers[i] = x})
EvaluationsOfText(x) ==
    Cardinality({i \in 1..Len(evaluations) : evaluations[i].answer_text = x})

\* C11: an evaluation is created once per answered question and never changed:
\* whichever of the graph's evaluate node and evaluate_all run, no answer is
\* evaluated twice (no text has more evaluations than answers holding it) and
\* every evaluation already in the list stays where and what it was.
C11_EvaluatedOnceNeverMutated ==
    [][/\ Len(evaluations') >= Len(evaluations)
       /\ \A i \in 1..Len(evaluations) : evaluations'[i] = evaluations[i]
       /\ \A x \in AnswerTexts : EvaluationsOfText(x)' <= AnswersWithText(x)']_vars

\* C12: an answer submission that does not run to completion leaves answers,
\* questions and current_question_id as they were before the request: when the
\* answer route fails (question generation raised), and when a next-question
\* stream is closed before its question is stored (no other answer recorded
\* since the request arrived).
C12_AtomicAnswerSubmission ==
    [][/\ (last'.op = "submit_answer" /\ last'.code = 500) =>
              UNCHANGED <<answers, questions, current_question_id>>
       /\ \A r \in Requests :
             (/\ last'.op = "stream_abandon"
              /\ gen[r].pc \in {"created", "streaming"}
              /\ gen'[r].pc = "idle"
              /\ Len(answers) = gen[r].answers_before + 1) =>
                 Len(answers') = gen[r].answers_before]_vars

\* C13: after each accepted answer, current_question_id is the id of the next
\* unanswered question (the one at 0-based index len(answers)) when there is
\* one, and total_questions when every question so far has been answered.
C13_PointerAfterAnswer ==
    (last.op \in {"submit_answer", "workflow_submit_answer"} /\ Returned(last)) =>
        current_question_id =
            IF Len(answers) < Len(questions)
            THEN questions[Len(answers) + 1].question_id
            ELSE total_questions

\* ------------------------------------------------- start with any total
\* total_questions is a plain int of start_interview_incremental and of the
\* settings: the values a caller or a deployment can pass, below 1 included
AnyTotals == (0 - 1)..MaxTotal

\* the operations that never divide by a total below 1: both starts, the
\* answer and finalize operations (a session whose total is below 1 has all
\* its answers in from the start, so the answer route generates no question)
NextAnyTotal ==
    \/ \E t \in AnyTotals, ok \in BOOLEAN : start_interview(t, ok)
    \/ \E a \in AnswerTexts, ok \in BOOLEAN : submit_answer(a, ok)
    \/ \E f \in FeedbackTexts, ok \in BOOLEAN : complete_interview(f, ok)
    \/ \E t \in AnyTotals, first \in BOOLEAN, ok \in BOOLEAN :
          workflow_start(t, first, ok)
    \/ \E a \in AnswerTexts : workflow_submit_answer(a)
    \/ workflow_evaluate_all_answers
    \/ \E f \in FeedbackTexts, ok \in BOOLEAN : workflow_get_feedback(f, ok)

SpecAnyTotal == Init /\ [][NextAnyTotal]_vars

\* C14: start requires total_questions >= 1; a start with total_questions of 0
\* or less is rejected as a validation error and creates no session.
C14_StartRequiresPositiveTotal ==
    api # "none" => total_questions >= 1

\* operations that hand out the session start_interview_incremental returned
StartOps == {"workflow_start", "stream_start_interview", "start_interview_stream"}

\* C15: start returns a session whose status is in_progress and which has zero
\* questions, zero answers, zero evaluations and no feedback.
C15_StartReturnsEmptySession ==
    (last.op \in StartOps /\ Returned(last)) =>
        /\ status = "in_progress"
        /\ questions = <<>>
        /\ answers = <<>>
        /\ evaluations = <<>>
        /\ final_feedback = None

\* C15 as the code has it: the session start_interview_incremental returns is
\* in_progress with zero answers, zero evaluations and no feedback; it has zero
\* questions only when generate_first_question is False (the start of
\* interviews_stream.py), and otherwise holds the first question, id 1, with
\* the pointer on it.
C15_StartReturnsFirstQuestionAtMost ==
    (last.op \in StartOps /\ Returned(last)) =>
        /\ status = "in_progress"
        /\ answers = <<>>
        /\ evaluations = <<>>
        /\ final_feedback = None
        /\ questions \in {<<>>, <<generate_first_question>>}
        /\ current_question_id = Len(questions)
        /\ last.op = "stream_start_interview" => questions = <<>>
        /\ last.op = "start_interview_stream" => Len(questions) = 1

\* C15 witness: a start that returned the session with its first question
C15_Witness ==
    /\ last.op = "workflow_start"
    /\ Returned(last)
    /\ Len(questions) = 1
    /\ questions[1].question_id = 1

\* ------------------------------------------------- category of a question
\* _determine_category on its own: the question index and the total are drawn
\* at the start, and the call leaves its result in last.detail

InitCategory ==
    /\ api = "none"
    /\ stored = FALSE
    /\ total_questions \in 1..MaxCategoryTotal
    /\ current_question_id \in 1..total_questions
    /\ questions = <<>>
    /\ answers = <<>>
    /\ evaluations = <<>>
    /\ final_feedback = None
    /\ status = "in_progress"
    /\ gen = [r \in Requests |-> IdleGen]
    /\ graph_pc = "idle"
    /\ last = Resp("init", 0, "", FALSE)

\* interviewer_agent._determine_category(question_id, total_questions)
call_determine_category ==
    /\ last.op = "init"
    /\ last' = Resp("_determine_category", 0,
                    determine_category(current_question_id, total_questions),
                    FALSE)
    /\ UNCHANGED <<api, stored, session, gen, graph_pc>>

NextCategory == call_determine_category

SpecCategory == InitCategory /\ [][NextCategory]_vars

\* the category formula as stated: share of the interview reached by q
CategoryRule(q, total) ==
    IF q = 1 THEN "opening"
    ELSE IF q * 10 <= total * 3 THEN "foundational"
    ELSE IF q * 10 <= total * 6 THEN "intermediate"
    ELSE IF q * 10 <= total * 9 THEN "advanced"
    ELSE "closing"

\* C16: for every total >= 1 and 1 <= q <= total the category of question q is
\* opening if q = 1, otherwise foundational if q/total <= 0.3, intermediate if
\* q/total <= 0.6, advanced if q/total <= 0.9, else closing; for a total of 10,
\* question 1 is opening, 3 foundational, 6 intermediate, 9 advanced and
\* 10 closing.
C16_CategoryAssignment ==
    last.op = "_determine_category" =>
        /\ last.detail = CategoryRule(current_question_id, total_questions)
        /\ total_questions = 10 =>
              /\ current_question_id = 1 => last.detail = "opening"
              /\ current_question_id = 3 => last.detail = "foundational"
              /\ current_question_id = 6 => last.detail = "intermediate"
              /\ current_question_id = 9 => last.detail = "advanced"
              /\ current_question_id = 10 => last.detail = "closing"

\* C16 witness: question 3 of 10, on the inclusive 0.3 boundary
C16_Witness ==
    /\ last.op = "_determine_category"
    /\ total_questions = 10
    /\ current_question_id = 3
    /\ last.detail = "foundational"

\* ------------------------------------------------- bulk question generation
\* A line of the collaborator's response, after strip():
\*   blank        empty, skipped
\*   plain        text with no parsable number prefix: id = len(questions) + 1
\*   numbered     "n. text", "n) text" or "n: text": id = n
\*   number_only  "n." with nothing after the separator: empty text, skipped
Line(kind, n) == [kind |-> kind, n |-> n]
Lines ==
    {Line("blank", 0), Line("plain", 0), Line("number_only", 0)}
        \cup {Line("numbered", n) : n \in 0..MaxLineNumber}

\* sequences of at most n elements of S
SeqUpTo(S, n) == UNION {[1..k -> S] : k \in 0..n}

\* the loop of _parse_all_questions over the lines, questions so far in acc
RECURSIVE parse_lines(_, _, _)
parse_lines(lines, total, acc) ==
    IF lines = <<>> THEN acc
    ELSE LET line == Head(lines)
             question_id == IF line.kind = "numbered" THEN line.n
                            ELSE Len(acc) + 1
         IN parse_lines(Tail(lines), total,
                IF line.kind \in {"plain", "numbered"}
                THEN Append(acc, Question(question_id,
                                          determine_category(question_id, total)))
                ELSE acc)

\* the padding loop: placeholder questions until there are total of them
RECURSIVE pad_questions(_, _)
pad_questions(qs, total) ==
    IF Len(qs) < total
    THEN pad_questions(Append(qs, Question(Len(qs) + 1,
                                  determine_category(Len(qs) + 1, total))), total)
    ELSE qs

\* _parse_all_questions that keeps the questions beyond total_questions
parse_all_questions_untruncated(response, total) ==
    pad_questions(parse_lines(response, total, <<>>), total)

\* InterviewerAgent._parse_all_questions
parse_all_questions(response, total) ==
    LET parsed == parse_lines(response, total, <<>>)
    IN IF Len(parsed) < total THEN pad_questions(parsed, total)
       ELSE IF Len(parsed) > total THEN SubSeq(parsed, 1, total)
       ELSE parsed

InitBulk ==
    /\ api = "none"
    /\ stored = FALSE
    /\ total_questions \in 1..MaxBulkTotal
    /\ current_question_id = 0
    /\ questions = <<>>
    /\ answers = <<>>
    /\ evaluations = <<>>
    /\ final_feedback = None
    /\ status = "in_progress"
    /\ gen = [r \in Requests |-> IdleGen]
    /\ graph_pc = "idle"
    /\ last = Resp("init", 0, "", FALSE)

\* interviewer_agent.generate_all_questions(state): the returned list is kept
\* in questions, the collaborator's response in last.detail
generate_all_questions(response) ==
    /\ questions' = parse_all_questions(response, total_questions)
    /\ last' = Resp("generate_all_questions", 0, response, FALSE)
    /\ UNCHANGED <<api, stored, total_questions, current_question_id, answers,
                   evaluations, final_feedback, status, gen, graph_pc>>

\* one call in a behaviour
NextBulk ==
    /\ last.op = "init"
    /\ \E response \in SeqUpTo(Lines, MaxLines) : generate_all_questions(response)

SpecBulk == InitBulk /\ [][NextBulk]_vars

\* C17: bulk generation returns exactly total_questions questions for any
\* collaborator response (padded when too few lines, truncated when too many),
\* and each returned question carries the category the category formula gives
\* for its question_id.
C17_BulkExactlyTotal ==
    last.op = "generate_all_questions" =>
        /\ Len(questions) = total_questions
        /\ \A i \in 1..Len(questions) :
              questions[i].category =
                  CategoryRule(questions[i].question_id, total_questions)

\* C17 witness: a response with more question lines than total_questions was
\* parsed, numbered lines among them
C17_Witness ==
    /\ last.op = "generate_all_questions"
    /\ Len(last.detail) > total_questions
    /\ \A i \in 1..Len(last.detail) : last.detail[i].kind \in {"plain", "numbered"}
    /\ \E i \in 1..Len(last.detail) : last.detail[i].kind = "numbered"
    /\ Len(questions) = total_questions

\* the last operation was a finalize in which the feedback collaborator raised
FinalizeFailed(l) == l.op \in FinalizeOps /\ l.feedback_called /\ ~Returned(l)

\* C18: a failure of the feedback collaborator during finalize reaches the
\* caller as an error (a finalize that called the collaborator and returned has
\* stored its output), the session is not marked finished (status stays
\* in_progress, no feedback stored), and a finalize that comes next calls the
\* collaborator again.
C18_FeedbackFailurePropagates ==
    [][/\ FinalizeFailed(last') =>
             /\ UNCHANGED <<final_feedback, status>>
             /\ status' = "in_progress"
             /\ final_feedback' = None
       /\ (last'.op \in FinalizeOps /\ last'.feedback_called /\ Returned(last')) =>
             /\ final_feedback' # None
             /\ status' = "completed"
       /\ (FinalizeFailed(last) /\ last'.op \in FinalizeOps
             /\ last'.code \notin {400, 404}) => last'.feedback_called]_vars

\* C18 witness: a finalize on a session with answers failed in the collaborator
\* and the session is still in progress without feedback
C18_Witness ==
    /\ FinalizeFailed(last)
    /\ answers # <<>>
    /\ status = "in_progress"
    /\ final_feedback = None

\* ------------------------------------------------- fuzzy scoring
\* NLPFeatures as far as _normalize_features reads them; coherence_score and
\* complexity_score (0 to 1) are held in tenths
WordCounts == {20, 75, 150}
IndicatorCounts == {0, 2}
FillerCounts == {0, 2}
TechnicalCounts == {0, 4}
UnitTenths == {0, 10}
FeatureVectors ==
    [word_count : WordCounts, confidence_indicators : IndicatorCounts,
     filler_words_count : FillerCounts, technical_terms_count : TechnicalCounts,
     coherence_score : UnitTenths, complexity_score : UnitTenths]

\* a normalized value num/den on the 0-10 scale, den > 0
Ratio(num, den) == [num |-> num, den |-> den]
Max(a, b) == IF a >= b THEN a ELSE b

\* FuzzyEvaluationService._normalize_features, in exact fractions:
\* max(word_count / 100, 1) is M / 100 with M = max(word_count, 100)
normalize_features(features) ==
    LET M == Max(features.word_count, 100)
    IN [word_count |-> Ratio(Min(features.word_count, 150), 15),
        coherence |-> Ratio(Min(features.coherence_score, 10), 1),
        confidence_level |->
            Ratio(Min(500 * features.confidence_indicators, 10 * M), M),
        technical_depth |->
            Ratio(Min(300 * features.technical_terms_count, 10 * M), M),
        filler_ratio |->
            Ratio(Max(10 * M - 500 * features.filler_words_count, 0), M),
        complexity |-> Ratio(Min(features.complexity_score, 10), 1)]

\* membership above zero of trimf over [0, 0, 4], [3, 5, 7] and [6, 10, 10]
low(v) == v.num < 4 * v.den
medium(v) == 3 * v.den < v.num /\ v.num < 7 * v.den
high(v) == v.num > 6 * v.den
\* filler_ratio has its own terms: [0, 0, 3], [2, 5, 8] and [7, 10, 10]
filler_low(v) == v.num < 3 * v.den
filler_medium(v) == 2 * v.den < v.num /\ v.num < 8 * v.den
filler_high(v) == v.num > 7 * v.den

\* some rule of the dimension has a firing strength above zero (AND is min,
\* OR is max), so that the aggregated output has an area and a centroid
clarity_fires(n) ==
    \/ high(n.coherence) /\ filler_low(n.filler_ratio)
    \/ high(n.coherence) /\ filler_medium(n.filler_ratio)
    \/ medium(n.coherence) /\ filler_low(n.filler_ratio)
    \/ medium(n.coherence) /\ filler_medium(n.filler_ratio)
    \/ low(n.coherence) \/ filler_high(n.filler_ratio)

confidence_fires(n) ==
    \/ high(n.confidence_level) /\ high(n.word_count)
    \/ high(n.confidence_level) /\ medium(n.word_count)
    \/ medium(n.confidence_level) /\ medium(n.word_count)
    \/ medium(n.confidence_level) /\ low(n.word_count)
    \/ low(n.confidence_level)

relevance_fires(n) ==
    \/ high(n.technical_depth) /\ high(n.complexity)
    \/ high(n.technical_depth) /\ medium(n.complexity)
    \/ medium(n.technical_depth) /\ medium(n.complexity)
    \/ medium(n.technical_depth) /\ low(n.complexity)
    \/ low(n.technical_depth)

\* what ControlSystemSimulation.compute() and the read of output[...] raise
\* when no rule fired; which of them depends on the scikit-fuzzy release
\* (AssertionError from defuzz, KeyError from the missing output, or the
\* ValueError "Crisp output cannot be calculated" of the later releases)
LibraryErrors == {"KeyError", "AssertionError", "ValueError"}
\* except (KeyError, AssertionError)
CaughtErrors == {"KeyError", "AssertionError"}

\* centroids the library may return for a dimension whose rules fired, in
\* thousandths (9.222 for excellent cut at 0.5, 9.173 for excellent cut at
\* 0.625); no value and no weighted sum of three of them lies halfway between
\* two hundredths, where round() would depend on the binary representation
Centroids == {1000, 6000, 7000, 8000, 9173, 9222}
\* clarity = 5.0, the fallback, in thousandths
FallbackScore == 5000

\* one try/except block of evaluate: the centroid when a rule fired, the
\* fallback when the library raised a caught error, else the error goes on
dimension_score(fires, centroid, err) ==
    IF fires THEN [raised |-> FALSE, value |-> centroid]
    ELSE IF err \in CaughtErrors THEN [raised |-> FALSE, value |-> FallbackScore]
    ELSE [raised |-> TRUE, value |-> 0]

\* round(x, 2) of x in thousandths, and of x in ten-thousandths: the result
\* in hundredths
round2(x) == (x + 5) \div 10
round2_of_weighted(w) == (w + 50) \div 100

\* the overall score with the weights of clarity and relevance exchanged
overall_swapped(clarity, confidence, relevance) ==
    (clarity * 4) + (confidence * 3) + (relevance * 3)

\* overall = (clarity * 0.3) + (confidence * 0.3) + (relevance * 0.4), in
\* ten-thousandths for sub-scores in thousandths
overall(clarity, confidence, relevance) ==
    (clarity * 3) + (confidence * 3) + (relevance * 4)

\* EvaluationScore(...) of evaluate, in hundredths
EvaluationScore(clarity, confidence, relevance) ==
    [clarity |-> round2(clarity),
     confidence |-> round2(confidence),
     relevance |-> round2(relevance),
     overall_score |-> round2_of_weighted(overall(clarity, confidence, relevance))]

NoScore == [clarity |-> 0, confidence |-> 0, relevance |-> 0, overall_score |-> 0]

\* fuzzy_service.evaluate(features, answer_text): centroid holds what the
\* library computes for the dimensions whose rules fire, err what it raises
\* for the others; last.detail keeps the call and its outcome
fuzzy_evaluate(features, centroid, err) ==
    /\ LET normalized == normalize_features(features)
           clarity == dimension_score(clarity_fires(normalized),
                                      centroid.clarity, err)
           confidence == dimension_score(confidence_fires(normalized),
                                         centroid.confidence, err)
           relevance == dimension_score(relevance_fires(normalized),
                                        centroid.relevance, err)
           raised == clarity.raised \/ confidence.raised \/ relevance.raised
       IN last' = Resp("fuzzy_evaluate", IF raised THEN -1 ELSE 0,
                       [features |-> features,
                        unrounded |-> [clarity |-> clarity.value,
                                       confidence |-> confidence.value,
                                       relevance |-> relevance.value],
                        scores |-> IF raised THEN NoScore
                                   ELSE EvaluationScore(clarity.value,
                                                        confidence.value,
                                                        relevance.value)],
                       FALSE)
    /\ UNCHANGED <<api, stored, session, gen, graph_pc>>

\* one call in a behaviour
NextFuzzy ==
    /\ last.op = "init"
    /\ \E features \in FeatureVectors, clarity \in Centroids,
          confidence \in Centroids, relevance \in Centroids,
          err \in LibraryErrors :
             fuzzy_evaluate(features,
                            [clarity |-> clarity, confidence |-> confidence,
                             relevance |-> relevance], err)

SpecFuzzy == Init /\ [][NextFuzzy]_vars

\* C19: scoring never throws: when no rule of a dimension fires, that dimension
\* is returned as 5.0, an EvaluationScore is produced and no error reaches the
\* caller.
C19_ScoreNeverThrows ==
    last.op = "fuzzy_evaluate" =>
        LET normalized == normalize_features(last.detail.features)
        IN /\ Returned(last)
           /\ ~clarity_fires(normalized) => last.detail.scores.clarity = 500
           /\ ~confidence_fires(normalized) => last.detail.scores.confidence = 500
           /\ ~relevance_fires(normalized) => last.detail.scores.relevance = 500

\* |a - b|
Distance(a, b) == IF a >= b THEN a - b ELSE b - a

\* an EvaluationScore was returned
ScoreReturned == last.op = "fuzzy_evaluate" /\ Returned(last)

\* C20: for every returned EvaluationScore, overall_score equals
\* 0.3*clarity + 0.3*confidence + 0.4*relevance of the returned sub-scores
\* rounded to 2 decimals (the nearest hundredth to that sum, either one on a
\* tie), and it lies in [0, 10].
C20_OverallOfReturnedSubScores ==
    ScoreReturned =>
        LET s == last.detail.scores
            weighted == 3 * s.clarity + 3 * s.confidence + 4 * s.relevance
        IN /\ Distance(10 * s.overall_score, weighted) <= 5
           /\ s.overall_score \in 0..1000

\* C20 as the code has it: overall_score is the 2-decimal rounding of
\* 0.3*clarity + 0.3*confidence + 0.4*relevance taken over the sub-scores
\* before they are rounded; the returned sub-scores are their 2-decimal
\* roundings, so overall_score is within 0.01 of the weighted sum of the
\* returned sub-scores, and it lies in [0, 10].
C20_OverallOfUnroundedSubScores ==
    ScoreReturned =>
        LET s == last.detail.scores
            u == last.detail.unrounded
            weighted == 3 * s.clarity + 3 * s.confidence + 4 * s.relevance
            unrounded == 3 * u.clarity + 3 * u.confidence + 4 * u.relevance
        IN /\ Distance(100 * s.overall_score, unrounded) <= 50
           /\ Distance(10 * s.clarity, u.clarity) <= 5
           /\ Distance(10 * s.confidence, u.confidence) <= 5
           /\ Distance(10 * s.relevance, u.relevance) <= 5
           /\ Distance(10 * s.overall_score, weighted) <= 10
           /\ s.overall_score \in 0..1000

\* C20 witness: clarity 8.00, confidence 6.00 and relevance 7.00 returned with
\* an overall score of 7.00
C20_Witness ==
    /\ ScoreReturned
    /\ last.detail.scores =
           [clarity |-> 800, confidence |-> 600, relevance |-> 700,
            overall_score |-> 700]

\* ------------------------------------------------- feature extraction
\* A text as extract_features sees it: blank (empty or whitespace only), or
\* the sentences of doc.sents, each with the set of lemmas of its nouns,
\* proper nouns and verbs; a text that is not blank has at least one sentence
Keywords == {"k1", "k2", "k3"}
Text(blank, sentences) == [blank |-> blank, sentences |-> sentences]
Texts ==
    {Text(TRUE, <<>>)} \cup
    {Text(FALSE, ss) : ss \in UNION {[1..k -> SUBSET Keywords] : k \in 1..MaxSentences}}

\* len(current & next_sent) / len(current | next_sent), in sixths
overlap(current, next_sent) ==
    (6 * Cardinality(current \cap next_sent)) \div Cardinality(current \cup next_sent)

\* the overlaps of consecutive sentences that both have keywords
overlaps(sentences) ==
    {i \in 1..(Len(sentences) - 1) : sentences[i] # {} /\ sentences[i + 1] # {}}

RECURSIVE SumOverlaps(_, _)
SumOverlaps(sentences, is) ==
    IF is = {} THEN 0
    ELSE LET i == CHOOSE j \in is : TRUE
         IN overlap(sentences[i], sentences[i + 1]) + SumOverlaps(sentences, is \ {i})

\* sum(overlaps) / len(overlaps) rounded to 3 decimals, in thousandths
mean_overlap(sentences) ==
    LET k == Cardinality(overlaps(sentences))
        total == SumOverlaps(sentences, overlaps(sentences))
    IN (2000 * total + 6 * k) \div (12 * k)

\* _calculate_coherence that returns 1.0 only for no sentence at all
calculate_coherence_strict(sentences) ==
    IF Len(sentences) < 1 THEN 1000
    ELSE IF overlaps(sentences) = {} THEN 500
    ELSE mean_overlap(sentences)

\* NLPService._calculate_coherence, in thousandths
calculate_coherence(sentences) ==
    IF Len(sentences) <= 1 THEN 1000
    ELSE IF overlaps(sentences) = {} THEN 500
    ELSE mean_overlap(sentences)

\* NLPService.extract_features: NLPFeatures() for a blank text, else the
\* features of the parsed text (sentence_count and coherence_score kept)
extract_features(text) ==
    /\ last' = Resp("extract_features", 0,
                    IF text.blank
                    THEN [text |-> text, sentence_count |-> 0, coherence_score |-> 0]
                    ELSE [text |-> text,
                          sentence_count |-> Len(text.sentences),
                          coherence_score |-> calculate_coherence(text.sentences)],
                    FALSE)
    /\ UNCHANGED <<api, stored, session, gen, graph_pc>>

\* one call in a behaviour
NextNLP ==
    /\ last.op = "init"
    /\ \E text \in Texts : extract_features(text)

SpecNLP == Init /\ [][NextNLP]_vars

\* C21: for every text whose sentence count is <= 1, the empty and the
\* whitespace-only text (sentence count 0) included, extract returns
\* coherence exactly 1.0.
C21_CoherenceOneUpToOneSentence ==
    (last.op = "extract_features" /\ last.detail.sentence_count <= 1) =>
        last.detail.coherence_score = 1000

\* C21 as the code has it: a text that is not blank and has one sentence gets
\* coherence exactly 1.0; the empty or whitespace-only text gets the
\* zero-valued bundle, sentence count 0 and coherence 0.0, without an error.
C21_CoherenceOneForOneSentence ==
    last.op = "extract_features" =>
        /\ Returned(last)
        /\ (~last.detail.text.blank /\ last.detail.sentence_count <= 1) =>
               last.detail.coherence_score = 1000
        /\ last.detail.text.blank =>
               last.detail.sentence_count = 0 /\ last.detail.coherence_score = 0

\* C21 witness: a one-sentence text was given coherence 1.0
C21_Witness ==
    /\ last.op = "extract_features"
    /\ ~last.detail.text.blank
    /\ last.detail.sentence_count = 1
    /\ last.detail.coherence_score = 1000

\* ------------------------------------------------- membership functions
InputVariables == {"word_count", "coherence", "confidence_level",
                   "technical_depth", "filler_ratio", "complexity"}
TermNames == {"low", "medium", "high"}
\* np.arange(0, 11, 1)
Universe == 0..10

\* the same three triangles for every input variable
term_points_uniform(variable, term) ==
    IF term = "low" THEN <<0, 0, 4>>
    ELSE IF term = "medium" THEN <<3, 5, 7>>
    ELSE <<6, 10, 10>>

\* the [a, b, c] given to fuzz.trimf for a term of an input variable
term_points(variable, term) ==
    IF variable = "filler_ratio"
    THEN IF term = "low" THEN <<0, 0, 3>>
         ELSE IF term = "medium" THEN <<2, 5, 8>>
         ELSE <<7, 10, 10>>
    ELSE IF term = "low" THEN <<0, 0, 4>>
         ELSE IF term = "medium" THEN <<3, 5, 7>>
         ELSE <<6, 10, 10>>

\* fuzz.trimf at the point x of the universe, in twelfths: 1 at the peak,
\* linear on both sides, 0 outside
trimf(x, abc) ==
    IF x = abc[2] THEN 12
    ELSE IF abc[1] < x /\ x < abc[2] THEN (12 * (x - abc[1])) \div (abc[2] - abc[1])
    ELSE IF abc[2] < x /\ x < abc[3] THEN (12 * (abc[3] - x)) \div (abc[3] - abc[2])
    ELSE 0

\* self.<variable>[term] read at the point x of its universe
membership(variable, term, x) ==
    /\ last' = Resp("membership", 0,
                    [variable |-> variable, term |-> term, x |-> x,
                     points |-> term_points(variable, term),
                     value |-> trimf(x, term_points(variable, term))],
                    FALSE)
    /\ UNCHANGED <<api, stored, session, gen, graph_pc>>

\* one read in a behaviour
NextMembership ==
    /\ last.op = "init"
    /\ \E variable \in InputVariables, term \in TermNames, x \in Universe :
          membership(variable, term, x)

SpecMembership == Init /\ [][NextMembership]_vars

\* the triangles as stated: low (0,0,4), medium (3,5,7), high (6,10,10)
StatedTriangle(term) ==
    CASE term = "low" -> <<0, 0, 4>>
      [] term = "medium" -> <<3, 5, 7>>
      [] term = "high" -> <<6, 10, 10>>

\* C22: all six fuzzy input variables use the same three triangular
\* membership functions, low = triangle(0,0,4), medium = triangle(3,5,7),
\* high = triangle(6,10,10).
C22_SameTrianglesForAllInputs ==
    last.op = "membership" =>
        /\ last.detail.points = StatedTriangle(last.detail.term)
        /\ last.detail.value = trimf(last.detail.x, StatedTriangle(last.detail.term))

\* C22 as the code has it: word_count, coherence, confidence_level,
\* technical_depth and complexity use low = triangle(0,0,4), medium =
\* triangle(3,5,7), high = triangle(6,10,10); filler_ratio uses
\* low = triangle(0,0,3), medium = triangle(2,5,8), high = triangle(7,10,10).
C22_FillerRatioHasOwnTriangles ==
    last.op = "membership" =>
        LET stated ==
                IF last.detail.variable # "filler_ratio"
                THEN StatedTriangle(last.detail.term)
                ELSE CASE last.detail.term = "low" -> <<0, 0, 3>>
                       [] last.detail.term = "medium" -> <<2, 5, 8>>
                       [] last.detail.term = "high" -> <<7, 10, 10>>
        IN /\ last.detail.points = stated
           /\ last.detail.value = trimf(last.detail.x, stated)

\* C22 witness: the medium term of filler_ratio read at 7, where
\* triangle(2,5,8) is 1/3 and triangle(3,5,7) is 0
C22_Witness ==
    /\ last.op = "membership"
    /\ last.detail.variable = "filler_ratio"
    /\ last.detail.term = "medium"
    /\ last.detail.x = 7
    /\ last.detail.value = 4

\* C23: in the workflow graph, every evaluation the evaluate node appends has
\* the question_id of the question at the same index as the evaluated answer
\* (the latest one), not of a question generated after that answer.
C23_GraphEvaluatesAgainstOwnQuestion ==
    [][(last'.op = "evaluate_answer_node" /\ Len(evaluations') > Len(evaluations)) =>
          /\ Len(answers) <= Len(questions)
          /\ evaluations'[Len(evaluations')].answer_text = answers[Len(answers)]
          /\ evaluations'[Len(evaluations')].question_id =
                 questions[Len(answers)].question_id]_vars

\* ------------------------------------------------- bulk-only evaluation

\* C24: through the answer routes evaluation is bulk-only: an accepted answer
\* submission that leaves fewer than total_questions answers creates no
\* evaluation and reports none, and the submission that brings the answers to
\* total_questions ends with one evaluation per answer and reports the status
\* "evaluated" (the route in its response, the stream when its generator has
\* run the bulk evaluation).
C24_BulkOnlyEvaluation ==
    [][/\ (/\ last'.op \in {"submit_answer", "submit_answer_stream",
                            "answer_stream_begin", "answer_stream_finish"}
           /\ last'.code = 200
           /\ Len(answers') < total_questions)
          => /\ evaluations' = evaluations
             /\ last'.detail # "evaluated"
       /\ (/\ last'.op \in {"submit_answer", "answer_stream_evaluate"}
           /\ last'.code = 200
           /\ Len(answers') = total_questions)
          => /\ Len(evaluations') = Len(answers')
             /\ last'.detail = "evaluated"]_vars

\* ------------------------------------------- one unanswered question

\* C25: between completed requests on the non-streaming routes, a stored
\* in_progress session with fewer than total_questions answers has exactly one
\* unanswered question: len(questions) = len(answers) + 1.
C25_OneUnansweredQuestion ==
    (stored /\ status = "in_progress" /\ Len(answers) < total_questions)
        => Len(questions) = Len(answers) + 1

\* ------------------------------------------------- completed is absorbing

\* C26: completed is absorbing: from a session whose status is completed, no
\* step sets the status back or changes the stored feedback summary, and no
\* step of the routes changes its answers, questions or evaluations.
C26_CompletedIsAbsorbing ==
    [][(status = "completed" /\ last'.op # "start_interview"
            /\ last'.op # "start_interview_stream"
            /\ last'.op # "stream_start_interview"
            /\ last'.op # "workflow_start") =>
          /\ status' = "completed"
          /\ final_feedback' = final_feedback
          /\ (api \in {"interviews", "interviews_stream"} =>
                 /\ answers' = answers
                 /\ questions' = questions
                 /\ evaluations' = evaluations)]_vars

\* ------------------------------------------------- pointer within the plan

\* C27: in every reachable session state the current question pointer stays
\* within the plan: 0 <= current_question_id <= total_questions.
C27_PointerWithinPlan ==
    api # "none" => (0 <= current_question_id /\ current_question_id <= total_questions)

\* ------------------------------------------------- termination of a graph run

\* the workflow API alone: sessions built with the InterviewWorkflow methods
\* and runs of the compiled graph
NextGraph ==
    \/ \E t \in TotalChoices, first \in BOOLEAN, ok \in BOOLEAN :
          workflow_start(t, first, ok)
    \/ \E a \in AnswerTexts : workflow_submit_answer(a)
    \/ workflow_evaluate_all_answers
    \/ \E f \in FeedbackTexts, ok \in BOOLEAN : workflow_get_feedback(f, ok)
    \/ graph_invoke
    \/ \E ok \in BOOLEAN : generate_question_node(ok)
    \/ evaluate_answer_node
    \/ \E f \in FeedbackTexts, ok \in BOOLEAN : graph_generate_feedback(f, ok)

\* one node execution of a run in progress
GraphStep ==
    \/ \E ok \in BOOLEAN : generate_question_node(ok)
    \/ evaluate_answer_node
    \/ \E f \in FeedbackTexts, ok \in BOOLEAN : graph_generate_feedback(f, ok)

\* graph.invoke is synchronous and the collaborators return (or raise): a
\* run in progress always executes its next node
SpecGraph == Init /\ [][NextGraph]_vars /\ WF_vars(GraphStep)

\* C28: a run of the workflow graph terminates: once started at
\* generate_question, the run reaches END (no node is pending any more) after
\* finitely many node executions.
C28_GraphRunTerminates == (graph_pc # "idle") ~> (graph_pc = "idle")

\* the cycle has closed once: the run has evaluated an answer and goes back to
\* generate_question
C28_Witness ==
    /\ last.op = "evaluate_answer_node"
    /\ graph_pc = "generate_question"
    /\ Len(evaluations) <= Len(answers)

\* ------------------------------------------------- deletion is final

\* C29: a deleted session stays deleted: once delete_interview has removed the
\* session from the store (a session that was started and is not stored), no
\* later step, in particular no step of a start or answer stream that was in
\* flight, puts it back into the store.
C29_DeletedStaysDeleted ==
    [][(api = "interviews" /\ ~stored) => ~stored']_vars

\* ------------------------------------------------- interleaved answer streams

\* largest total_questions of a streamed interview: two answers are accepted
\* before the plan is complete
MaxStreamTotal == 3

\* the streaming routes alone: requests interleave where their generators
\* yield
NextStreams ==
    \/ \E r \in Requests, t \in 1..MaxStreamTotal, ok \in BOOLEAN :
          start_interview_stream(r, t, ok)
    \/ \E r \in Requests, t \in 1..MaxStreamTotal : stream_start_interview(r, t)
    \/ \E r \in Requests : start_stream_generate(r)
    \/ \E r \in Requests, a \in AnswerTexts : submit_answer_stream(r, a)
    \/ \E r \in Requests : answer_stream_begin(r)
    \/ \E r \in Requests : answer_stream_finish(r)
    \/ \E r \in Requests : answer_stream_evaluate(r)
    \/ \E r \in Requests : stream_abandon(r)

SpecStreams == Init /\ [][NextStreams]_vars

\* C30: when two answer-stream requests of one in_progress session interleave
\* at their suspension points, the questions they append get distinct
\* question_ids (two streams suspended before their append never hold the same
\* id for the question to come), and each stream that runs to its end adds
\* exactly one new question.
C30_InterleavedStreamsDistinctIds ==
    [][/\ \A r1, r2 \in Requests :
             (r1 # r2 /\ gen'[r1].pc = "streaming" /\ gen'[r2].pc = "streaming")
                 => gen'[r1].question_id # gen'[r2].question_id
       /\ last'.op = "answer_stream_finish"
             => Len(questions') = Len(questions) + 1]_vars

====
